---- MODULE Spec2Model ----
(***************************************************************************)
(* jist: upload Jupyter notebooks to GitHub gists through the `gh` client. *)
(* Texts are TLA+ strings; a character is a string of length one.          *)
(***************************************************************************)
EXTENDS Integers, Sequences, FiniteSets, TLC

VARIABLES
    status,      \* position of main: "start", "running", "done", "usage_error", "crashed"
    which_gh,    \* result of shutil.which("gh"): an Optional path
    then_clear,  \* args.then_clear
    notebooks,   \* args.notebook, the list of input paths
    i,           \* 1-based index in notebooks of the next file of the for loop
    disk,        \* the file system: path -> notebook document
    parsed,      \* the local `parsed` at the end of the last loop iteration
    hist,        \* one record per loop iteration: what was read, called, answered, written
    log,         \* logger.error records
    run,         \* number of the current invocation of main
    fn           \* argument/result of a function applied on its own

vars == <<status, which_gh, then_clear, notebooks, i, disk, parsed, hist, log, run, fn>>

----------------------------------------------------------------------------
(* Bounds *)

MaxFrags == 4
MaxCells == 2
MaxFiles == 2
MaxRuns == 2

----------------------------------------------------------------------------
(* Python values *)

None == [present |-> FALSE, value |-> ""]

Some(v) == [present |-> TRUE, value |-> v]

\* truth value of an Optional[str] in `if x:` / `if not x:`
Truthy(o) == o.present /\ o.value # ""

Min(a, b) == IF a <= b THEN a ELSE b

EmptyDict == <<>>

\* dict.get(key, default)
Get(d, key, default) == IF key \in DOMAIN d THEN d[key] ELSE default

----------------------------------------------------------------------------
(* GIST_PATTERN = https?://gist.github.com/(?P<GistId>[a-zA-Z0-9/_-]+) *)

At(text, p) == SubSeq(text, p, p)

Lower == {"a","b","c","d","e","f","g","h","i","j","k","l","m",
          "n","o","p","q","r","s","t","u","v","w","x","y","z"}

Upper == {"A","B","C","D","E","F","G","H","I","J","K","L","M",
          "N","O","P","Q","R","S","T","U","V","W","X","Y","Z"}

Digit == {"0","1","2","3","4","5","6","7","8","9"}

\* the character class [a-zA-Z0-9/_-]
IdChars == Lower \cup Upper \cup Digit \cup {"/", "_", "-"}

\* the literal lit occurs in text at position p
HasLit(text, p, lit) ==
    /\ p >= 1
    /\ p + Len(lit) - 1 <= Len(text)
    /\ SubSeq(text, p, p + Len(lit) - 1) = lit

\* the unescaped `.` of the pattern: any one character except a newline
AnyChar(text, p) == p >= 1 /\ p <= Len(text) /\ At(text, p) # "\n"

\* position of the first character of the GistId group when the part of the
\* pattern before the group matches at p, 0 otherwise
PrefixEnd(text, p) ==
    IF ~HasLit(text, p, "http") THEN 0
    ELSE LET q2 == IF HasLit(text, p + 4, "s") THEN p + 5 ELSE p + 4
         IN IF /\ HasLit(text, q2, "://gist")
               /\ AnyChar(text, q2 + 7)
               /\ HasLit(text, q2 + 8, "github")
               /\ AnyChar(text, q2 + 14)
               /\ HasLit(text, q2 + 15, "com/")
            THEN q2 + 19
            ELSE 0

\* a lazy quantifier, [..]+? : the run stops after its first character
RunEnd_lazy(text, q) ==
    IF q <= Len(text) /\ At(text, q) \in IdChars THEN q ELSE q - 1

\* greedy [..]+ : last position of the run of IdChars that starts at q
\* (q - 1 when the run is empty)
RECURSIVE RunEnd(_, _)
RunEnd(text, q) ==
    IF q <= Len(text) /\ At(text, q) \in IdChars
    THEN RunEnd(text, q + 1)
    ELSE q - 1

NoMatch == [found |-> FALSE, start |-> 0, gstart |-> 0, end |-> 0]

\* the pattern matched at exactly position p
MatchAt(text, p) ==
    LET g == PrefixEnd(text, p)
        e == IF g = 0 THEN 0 ELSE RunEnd(text, g)
    IN IF g # 0 /\ e >= g
       THEN [found |-> TRUE, start |-> p, gstart |-> g, end |-> e]
       ELSE NoMatch

\* re.search: scan the start positions from left to right
RECURSIVE SearchFrom(_, _)
SearchFrom(text, p) ==
    IF p > Len(text) THEN NoMatch
    ELSE LET m == MatchAt(text, p)
         IN IF m.found THEN m ELSE SearchFrom(text, p + 1)

GIST_PATTERN_search(text) == SearchFrom(text, 1)

find_gist_id(text) ==
    LET match == GIST_PATTERN_search(text)
    IN IF ~match.found THEN None
       ELSE Some(SubSeq(text, match.gstart, match.end))

find_gist_url(text) ==
    LET match == GIST_PATTERN_search(text)
    IN IF ~match.found THEN None
       ELSE Some(SubSeq(text, match.start, match.end))

Whitespace == {" ", "\n", "\t", "\r"}

\* str.strip()
RECURSIVE LStrip(_)
LStrip(s) == IF Len(s) > 0 /\ At(s, 1) \in Whitespace THEN LStrip(Tail(s)) ELSE s

RECURSIVE RStrip(_)
RStrip(s) ==
    IF Len(s) > 0 /\ At(s, Len(s)) \in Whitespace
    THEN RStrip(SubSeq(s, 1, Len(s) - 1))
    ELSE s

Strip(s) == RStrip(LStrip(s))

----------------------------------------------------------------------------
(* Notebook documents (nbformat.NotebookNode) *)

\* a nullable integer
Null == [present |-> FALSE, value |-> 0]

Count(n) == [present |-> TRUE, value |-> n]

\* d[k] = v, adding the key when it is missing
SetKey(d, k, v) == [y \in DOMAIN d \cup {k} |-> IF y = k THEN v ELSE d[y]]

\* the loop over the fields stops after the first key it removed
PopAll_first(d, ks) ==
    LET here == ks \cap DOMAIN d
    IN IF here = {} THEN d
       ELSE [y \in DOMAIN d \ {CHOOSE k \in here : TRUE} |-> d[y]]

\* dict.pop(k, None) for every k of ks
PopAll(d, ks) == [y \in DOMAIN d \ ks |-> d[y]]

\* cell.get("cell_type", None) compared with a kind
CellTypeIs(cell, kind) == "cell_type" \in DOMAIN cell /\ cell.cell_type = kind

\* the kind of the first cell is not looked at
gist_url_from_notebook_anykind(notebook) ==
    IF Len(notebook.cells) = 0 THEN None
    ELSE find_gist_id(Get(notebook.cells[1], "source", ""))

gist_url_from_notebook(notebook) ==
    IF Len(notebook.cells) = 0 THEN None
    ELSE LET head == notebook.cells[1]
         IN IF ~CellTypeIs(head, "markdown") THEN None
            ELSE find_gist_id(Get(head, "source", ""))

\* the cell is built with new_raw_cell
new_markdown_cell_raw(nbf_version, source) ==
    [cell_type |-> "raw", source |-> source, metadata |-> EmptyDict]

\* nbformat.versions[v].new_markdown_cell(source=...)
new_markdown_cell(nbf_version, source) ==
    [cell_type |-> "markdown", source |-> source, metadata |-> EmptyDict]

\* cells.append instead of cells.insert(0, ..)
prepend_gist_url_append(gist_url, notebook) ==
    LET text == "Rendered at " \o gist_url
        nbf_version == Min(4, Get(notebook, "nbformat", 4))
        new_cell == new_markdown_cell(nbf_version, text)
    IN [notebook EXCEPT !.cells = @ \o <<new_cell>>]

prepend_gist_url(gist_url, notebook) ==
    LET text == "Rendered at " \o gist_url
        nbf_version == Min(4, Get(notebook, "nbformat", 4))
        new_cell == new_markdown_cell(nbf_version, text)
    IN [notebook EXCEPT !.cells = <<new_cell>> \o @]

RM_META_FIELDS == {"collapsed", "scrolled"}

\* the metadata of the cell is left alone
strip_cell_keepmeta(cell) ==
    IF ~CellTypeIs(cell, "code") THEN cell
    ELSE SetKey(SetKey(cell, "outputs", <<>>), "execution_count", Null)

\* the body of the for loop of strip_outputs
strip_cell(cell) ==
    IF ~CellTypeIs(cell, "code") THEN cell
    ELSE LET c1 == SetKey(cell, "outputs", <<>>)
             c2 == SetKey(c1, "execution_count", Null)
         IN IF "metadata" \in DOMAIN c2
            THEN [c2 EXCEPT !["metadata"] = PopAll(@, RM_META_FIELDS)]
            ELSE c2

strip_outputs(notebook) ==
    IF "cells" \in DOMAIN notebook
    THEN [notebook EXCEPT !.cells = [k \in DOMAIN @ |-> strip_cell(@[k])]]
    ELSE notebook

----------------------------------------------------------------------------
(* External client invoker *)

\* pathlib.Path.name: the part after the last "/"
RECURSIVE PathName(_)
PathName(file) ==
    IF \E p \in 1..Len(file) : At(file, p) = "/"
    THEN PathName(Tail(file))
    ELSE file

\* the local path is given as the remote file name too
update_args_path(gh_exe, gist_id, file) ==
    <<gh_exe, "gist", "edit", gist_id, "-f", file, file>>

update_args(gh_exe, gist_id, file) ==
    <<gh_exe, "gist", "edit", gist_id, "-f", file, PathName(file)>>

create_args(gh_exe, files) == <<gh_exe, "gist", "create">> \o files

\* what create_gist returns when subprocess.run returns proc
create_result(proc) == find_gist_id(Strip(proc.stdout))

----------------------------------------------------------------------------
(* Input domains *)

SeqsUpTo(S, n) == UNION {[1..k -> S] : k \in 0..n}

RECURSIVE Join(_)
Join(fs) == IF Len(fs) = 0 THEN "" ELSE Head(fs) \o Join(Tail(fs))

Frags == {"https://gist.github.com/", "http://gist.github.com/",
          "https://gist.gitlab.com/", "https://gistXgithub-com/",
          "https://gist\ngithub.com/",
          "ab", "/c-_", "Z9", " ", "?"}

Texts == {Join(fs) : fs \in SeqsUpTo(Frags, MaxFrags)}

mdRef ==
    [cell_type |-> "markdown",
     source |-> "See https://gist.github.com/abc123 for details",
     metadata |-> [collapsed |-> TRUE]]

mdPlain == [cell_type |-> "markdown", source |-> "# Notes", metadata |-> EmptyDict]

codeDirty ==
    [cell_type |-> "code",
     source |-> "# https://gist.github.com/code9",
     metadata |-> [collapsed |-> TRUE, scrolled |-> FALSE, tags |-> "keep"],
     outputs |-> <<"42">>,
     execution_count |-> Count(3)]

codeBare ==
    [cell_type |-> "code",
     source |-> "x = 1",
     outputs |-> <<"1", "2">>,
     execution_count |-> Count(1)]

rawRef ==
    [cell_type |-> "raw",
     source |-> "https://gist.github.com/raw1",
     metadata |-> EmptyDict]

Cells == {mdRef, mdPlain, codeDirty, codeBare, rawRef}

\* the version 4 documents of at most n cells
DocsUpTo(n) == {[nbformat |-> 4, cells |-> cs] : cs \in SeqsUpTo(Cells, n)}

Docs == DocsUpTo(MaxCells)

\* the file systems that hold the given files, budget cells in all
RECURSIVE Disks(_, _)
Disks(files, budget) ==
    IF files = {} THEN {EmptyDict}
    ELSE LET p == CHOOSE f \in files : TRUE
         IN UNION {{SetKey(d, p, doc) : d \in Disks(files \ {p}, budget - Len(doc.cells))} :
                   doc \in DocsUpTo(budget)}

Paths == {"nb/a.ipynb", "b.ipynb"}

Range(f) == {f[x] : x \in DOMAIN f}

\* nargs="+": at least one path
NotebookLists(files) == SeqsUpTo(files, MaxFiles) \ {<<>>}

\* what `gh gist create` may print on success
Stdouts == {"https://gist.github.com/xyz789\n",
            "- Creating gist\nhttp://gist.github.com/u/Ab_1-9 \n",
            "\n"}

\* the CompletedProcess outcomes of `gh gist create` and of `gh gist edit`
CreateProcs ==
    {[returncode |-> 1, stdout |-> ""]} \cup {[returncode |-> 0, stdout |-> o] : o \in Stdouts}

EditProcs == {[returncode |-> 1, stdout |-> ""], [returncode |-> 0, stdout |-> ""]}

NoDoc == [nbformat |-> 0, cells |-> <<>>]

NoFn == [op |-> "none"]

----------------------------------------------------------------------------
(* main *)

\* the files that exist are the ones named on the command line
Init ==
    /\ status = "start"
    /\ which_gh \in {None, Some("/usr/bin/gh")}
    /\ then_clear \in BOOLEAN
    /\ notebooks \in NotebookLists(Paths)
    /\ i = 0
    /\ disk \in Disks(Range(notebooks), MaxCells)
    /\ parsed = NoDoc
    /\ hist = <<>>
    /\ log = <<>>
    /\ run = 1
    /\ fn = NoFn

\* the result of shutil.which is not tested
MainStart_unchecked ==
    /\ status = "start"
    /\ status' = "running"
    /\ i' = 1
    /\ UNCHANGED <<which_gh, then_clear, notebooks, disk, parsed, hist, log, run, fn>>

\* lines 130-136: locate gh, parser.error when it is missing
MainStart ==
    /\ status = "start"
    /\ status' = IF which_gh.present THEN "running" ELSE "usage_error"
    /\ i' = IF which_gh.present THEN 1 ELSE i
    /\ UNCHANGED <<which_gh, then_clear, notebooks, disk, parsed, hist, log, run, fn>>

Iteration(path, read, reader, args, proc, wrote, written) ==
    [run |-> run, clear |-> then_clear, path |-> path, read |-> read,
     reader |-> reader, calls |-> <<args>>, procs |-> <<proc>>,
     wrote |-> wrote, written |-> written]

\* lines 163-168: optional strip, write, next file
ClearAndWrite(notebook, read, reader, args, proc, doc) ==
    LET final == IF then_clear THEN strip_outputs(doc) ELSE doc
    IN /\ parsed' = final
       /\ disk' = [disk EXCEPT ![notebook] = final]
       /\ hist' = Append(hist, Iteration(notebook, read, reader, args, proc, TRUE, final))
       /\ i' = i + 1
       /\ UNCHANGED <<status, log>>

\* the exception is caught around the loop body and the loop goes on
Crash_continue(notebook, read, reader, args, proc) ==
    /\ parsed' = read
    /\ hist' = Append(hist, Iteration(notebook, read, reader, args, proc, FALSE, NoDoc))
    /\ i' = i + 1
    /\ UNCHANGED <<status, disk, log>>

\* subprocess.run(check=True) raises CalledProcessError, which nothing catches
Crash(notebook, read, reader, args, proc) ==
    /\ status' = "crashed"
    /\ parsed' = read
    /\ hist' = Append(hist, Iteration(notebook, read, reader, args, proc, FALSE, NoDoc))
    /\ UNCHANGED <<i, disk, log>>

\* the `continue` is missing: the loop body goes on with gist_id None
Skip_fallthrough(notebook, read, reader, args, proc) ==
    ClearAndWrite(notebook, read, reader, args, proc,
                  prepend_gist_url("https://gist.github.com/None", read))

\* lines 150-155: no gist id, logger.error and continue
Skip(notebook, read, reader, args, proc) ==
    /\ log' = Append(log, [level |-> "error", path |-> notebook])
    /\ parsed' = read
    /\ hist' = Append(hist, Iteration(notebook, read, reader, args, proc, FALSE, NoDoc))
    /\ i' = i + 1
    /\ UNCHANGED <<status, disk>>

\* lines 139-145, 163-168: an iteration that takes the `if gist_id:` branch
LoopUpdate ==
    /\ status = "running"
    /\ i <= Len(notebooks)
    /\ LET notebook == notebooks[i]
           read == disk[notebook]
           gist_id == gist_url_from_notebook(read)
       IN /\ Truthy(gist_id)
          /\ \E proc \in EditProcs :
               LET gist_url == "https://gist.github.com/" \o gist_id.value
                   args == update_args(which_gh.value, gist_url, notebook)
               IN IF proc.returncode # 0
                  THEN Crash(notebook, read, gist_id, args, proc)
                  ELSE ClearAndWrite(notebook, read, gist_id, args, proc, read)
    /\ UNCHANGED <<which_gh, then_clear, notebooks, run, fn>>

\* lines 139-141, 146-168: an iteration that takes the `else:` branch
LoopCreate ==
    /\ status = "running"
    /\ i <= Len(notebooks)
    /\ LET notebook == notebooks[i]
           read == disk[notebook]
           reader == gist_url_from_notebook(read)
       IN /\ ~Truthy(reader)
          /\ \E proc \in CreateProcs :
               LET args == create_args(which_gh.value, <<notebook>>)
                   gist_id == create_result(proc)
               IN IF proc.returncode # 0
                  THEN Crash(notebook, read, reader, args, proc)
                  ELSE IF ~Truthy(gist_id)
                  THEN Skip(notebook, read, reader, args, proc)
                  ELSE LET gist_url == "https://gist.github.com/" \o gist_id.value
                       IN ClearAndWrite(notebook, read, reader, args, proc,
                                        prepend_gist_url(gist_url, read))
    /\ UNCHANGED <<which_gh, then_clear, notebooks, run, fn>>

\* the for loop is exhausted and main returns
MainReturn ==
    /\ status = "running"
    /\ i > Len(notebooks)
    /\ status' = "done"
    /\ UNCHANGED <<which_gh, then_clear, notebooks, i, disk, parsed, hist, log, run, fn>>

Next == MainStart \/ LoopUpdate \/ LoopCreate \/ MainReturn

Spec == Init /\ [][Next]_vars

----------------------------------------------------------------------------
(* The tool is run again on files it has processed *)

\* one file, named once, and gh installed
InitRerun ==
    /\ Init
    /\ Len(notebooks) = 1
    /\ which_gh.present

\* a later invocation on the same file as the last run left it
NewRun ==
    /\ status \in {"done", "crashed"}
    /\ run < MaxRuns
    /\ run' = run + 1
    /\ status' = "start"
    /\ i' = 0
    /\ then_clear' \in BOOLEAN
    /\ UNCHANGED <<which_gh, notebooks, disk, parsed, hist, log, fn>>

NextRerun == MainStart \/ LoopUpdate \/ LoopCreate \/ MainReturn \/ NewRun

SpecRerun == InitRerun /\ [][NextRerun]_vars

----------------------------------------------------------------------------
(* The extractor and strip_outputs applied to arbitrary arguments *)

InitFn ==
    /\ status = "fn"
    /\ which_gh = None
    /\ then_clear = FALSE
    /\ notebooks = <<>>
    /\ i = 0
    /\ disk = EmptyDict
    /\ parsed = NoDoc
    /\ hist = <<>>
    /\ log = <<>>
    /\ run = 1
    /\ \/ \E t \in Texts :
            fn = [op |-> "find_gist_id", arg |-> t, n |-> 0, id |-> None, url |-> None]
       \/ \E d \in Docs :
            fn = [op |-> "strip_outputs", arg |-> d, n |-> 0, once |-> d, out |-> d]

ApplyFind ==
    /\ fn.op = "find_gist_id"
    /\ fn.n = 0
    /\ fn' = [fn EXCEPT !.n = 1, !.id = find_gist_id(fn.arg), !.url = find_gist_url(fn.arg)]
    /\ UNCHANGED <<status, which_gh, then_clear, notebooks, i, disk, parsed, hist, log, run>>

ApplyStrip ==
    /\ fn.op = "strip_outputs"
    /\ fn.n < 2
    /\ LET out == strip_outputs(fn.out)
       IN fn' = [fn EXCEPT !.n = @ + 1, !.out = out,
                           !.once = IF fn.n = 0 THEN out ELSE @]
    /\ UNCHANGED <<status, which_gh, then_clear, notebooks, i, disk, parsed, hist, log, run>>

NextFn == ApplyFind \/ ApplyStrip

SpecFn == InitFn /\ [][NextFn]_vars

----------------------------------------------------------------------------
(* Properties of the extractor *)

SetMin(S) == CHOOSE x \in S : \A y \in S : x <= y

\* text[g..e] is a longest non-empty run of characters of [A-Za-z0-9/_-]
IsPath(text, g, e) ==
    /\ g <= e
    /\ e <= Len(text)
    /\ \A q \in g..e : At(text, q) \in IdChars
    /\ e = Len(text) \/ At(text, e + 1) \notin IdChars

\* the positions just after an occurrence at p of http:// or https://, gist,
\* one character that is not a newline, github, one such character and com/
AfterPrefix(text, p) ==
    {g \in {p + 23, p + 24} :
        LET scheme == IF g = p + 23 THEN "http://" ELSE "https://"
            c1 == p + Len(scheme) + 4
            c2 == c1 + 7
        IN /\ g - 1 <= Len(text)
           /\ SubSeq(text, p, c1 - 1) = scheme \o "gist"
           /\ At(text, c1) # "\n"
           /\ SubSeq(text, c1 + 1, c2 - 1) = "github"
           /\ At(text, c2) # "\n"
           /\ SubSeq(text, c2 + 1, g - 1) = "com/"}

\* the reference at p: a prefix followed by at least one path character
UrlAt(text, p) == \E g \in AfterPrefix(text, p) : g <= Len(text) /\ At(text, g) \in IdChars

UrlStarts(text) == {p \in 1..Len(text) : UrlAt(text, p)}

\* C7 (as amended): for all text containing a substring made of http:// or
\* https://, gist, any one character but a newline, github, any one character
\* but a newline, com/ and a path of one or more characters of [A-Za-z0-9/_-],
\* the extractor returns the longest path of the leftmost such substring; for
\* all other text it returns absent.
C7_Extractor ==
    (fn.op = "find_gist_id" /\ fn.n = 1) =>
        LET text == fn.arg
            starts == UrlStarts(text)
        IN IF starts = {} THEN fn.id = None
           ELSE /\ fn.id.present
                /\ \E g \in AfterPrefix(text, SetMin(starts)) :
                     LET e == g + Len(fn.id.value) - 1
                     IN /\ IsPath(text, g, e)
                        /\ fn.id.value = SubSeq(text, g, e)

\* the leftmost of two references is returned, with a path that runs into the
\* second one
C7_Witness ==
    /\ fn.op = "find_gist_id"
    /\ fn.n = 1
    /\ fn.arg = "https://gist.github.com/abhttps://gist.github.com/Z9"
    /\ fn.id = Some("abhttps")

HostChars == Lower \cup Upper \cup Digit \cup {".", "-"}

\* the positions just after an occurrence at p of https://gist.<host>/
ClaimedAfterPrefix(text, p) ==
    IF ~HasLit(text, p, "https://gist.") THEN {}
    ELSE {g \in (p + 15)..Len(text) :
            /\ \A q \in (p + 13)..(g - 2) : At(text, q) \in HostChars
            /\ At(text, g - 1) = "/"}

ClaimedUrlAt(text, p) == \E g \in ClaimedAfterPrefix(text, p) : At(text, g) \in IdChars

ClaimedStarts(text) == {p \in 1..Len(text) : ClaimedUrlAt(text, p)}

\* C7 (as stated): for all text containing a substring https://gist.<host>/<path>
\* the extractor returns the path of the first such occurrence; for all text
\* without such a substring it returns absent.
C7_AsStated ==
    (fn.op = "find_gist_id" /\ fn.n = 1) =>
        LET text == fn.arg
            starts == ClaimedStarts(text)
        IN IF starts = {} THEN fn.id = None
           ELSE /\ fn.id.present
                /\ \E g \in ClaimedAfterPrefix(text, SetMin(starts)) :
                     LET e == g + Len(fn.id.value) - 1
                     IN /\ IsPath(text, g, e)
                        /\ fn.id.value = SubSeq(text, g, e)

----------------------------------------------------------------------------
(* Properties of strip_outputs *)

\* C9: stripOutputs is idempotent: for every notebook document, applying it
\* twice yields the same document as applying it once.
C9_StripIdempotent ==
    (fn.op = "strip_outputs" /\ fn.n = 2) => fn.out = fn.once

\* a document with outputs, counters and both transient metadata keys was
\* stripped twice
C9_Witness ==
    /\ fn.op = "strip_outputs"
    /\ fn.n = 2
    /\ fn.arg.cells = <<mdRef, codeDirty>>
    /\ fn.once # fn.arg

----------------------------------------------------------------------------
(* Properties of the per-file driver *)

IsCreate(h) == h.calls[1][3] = "create"

IsEdit(h) == h.calls[1][3] = "edit"

ExitedZero(h) == h.procs[1].returncode = 0

\* the iteration h is the last one so far that wrote its file
LastWrite(k) ==
    /\ hist[k].wrote
    /\ \A m \in DOMAIN hist : (m > k /\ hist[m].path = hist[k].path) => ~hist[m].wrote

\* the part of a path after its last "/"
BaseName(path) ==
    LET starts == {p \in 1..(Len(path) + 1) : \A q \in p..Len(path) : At(path, q) # "/"}
    IN SubSeq(path, SetMin(starts), Len(path))

\* C1: create branch. For a notebook in which the reader finds no reference,
\* when the create call exits with 0 and its output contains a reference X, the
\* document written to the same path has one more cell than the one read, its
\* first cell is a markdown cell of source "Rendered at https://gist.github.com/X"
\* and the cells read follow in their order (unchanged when the outputs are not
\* cleared).
C1_CreateBranch ==
    \A k \in DOMAIN hist :
        LET h == hist[k]
            out == find_gist_id(h.procs[1].stdout)
            r == h.read.cells
            w == h.written.cells
        IN (~h.reader.present /\ ExitedZero(h) /\ out.present) =>
              /\ IsCreate(h)
              /\ h.wrote
              /\ LastWrite(k) => disk[h.path] = h.written
              /\ Len(w) = Len(r) + 1
              /\ w[1].cell_type = "markdown"
              /\ w[1].source = "Rendered at https://gist.github.com/" \o out.value
              /\ \A j \in DOMAIN r :
                    /\ w[j + 1].cell_type = r[j].cell_type
                    /\ w[j + 1].source = r[j].source
              /\ ~h.clear => Tail(w) = r

\* a gist was created for a notebook of two different cells and the file written
C1_Witness ==
    \E k \in DOMAIN hist :
        /\ IsCreate(hist[k])
        /\ hist[k].wrote
        /\ ~hist[k].clear
        /\ Len(hist[k].read.cells) >= 2
        /\ hist[k].read.cells[1] # hist[k].read.cells[2]
        /\ disk[hist[k].path] = hist[k].written

\* C2: update branch. For a notebook whose first cell is markdown and holds a
\* reference X, the driver makes exactly one client call, `gist edit
\* https://gist.github.com/X -f <path> <base name>`, no create call, inserts no
\* cell, and without then-clear writes the cells as read.
C2_UpdateBranch ==
    \A k \in DOMAIN hist :
        LET h == hist[k]
            r == h.read.cells
        IN (Len(r) > 0 /\ CellTypeIs(r[1], "markdown") /\ find_gist_id(r[1].source).present) =>
              /\ Len(h.calls) = 1
              /\ Len(h.calls[1]) = 7
              /\ SubSeq(h.calls[1], 2, 7) =
                    <<"gist", "edit",
                      "https://gist.github.com/" \o find_gist_id(r[1].source).value,
                      "-f", h.path, BaseName(h.path)>>
              /\ ExitedZero(h) => h.wrote
              /\ h.wrote => /\ Len(h.written.cells) = Len(r)
                            /\ h.written.cells[1] = r[1]
                            /\ LastWrite(k) => disk[h.path] = h.written
              /\ (h.wrote /\ ~h.clear) => h.written.cells = r

\* a notebook in a directory, with a reference in its first cell, was updated and
\* written without then-clear
C2_Witness ==
    \E k \in DOMAIN hist :
        /\ IsEdit(hist[k])
        /\ hist[k].wrote
        /\ ~hist[k].clear
        /\ hist[k].path = "nb/a.ipynb"
        /\ Len(hist[k].read.cells) >= 2

\* C3: NoReferenceProduced. When the create call exits with 0 and its output holds
\* no reference, the driver logs an error, prepends no cell, strips nothing,
\* writes nothing (the file stays as read) and goes on with the next file.
C3_NoReferenceProduced ==
    [][ (/\ Len(hist') = Len(hist) + 1
         /\ IsCreate(hist'[Len(hist')])
         /\ ExitedZero(hist'[Len(hist')])
         /\ ~find_gist_id(hist'[Len(hist')].procs[1].stdout).present)
        => (/\ log' = Append(log, [level |-> "error", path |-> notebooks[i]])
            /\ hist'[Len(hist')].path = notebooks[i]
            /\ hist'[Len(hist')].read = disk[notebooks[i]]
            /\ ~hist'[Len(hist')].wrote
            /\ parsed' = disk[notebooks[i]]
            /\ disk' = disk
            /\ status' = "running"
            /\ i' = i + 1) ]_vars

\* a file was skipped for want of a reference and the next file was handled
C3_Witness ==
    \E k \in DOMAIN hist :
        /\ IsCreate(hist[k])
        /\ ExitedZero(hist[k])
        /\ ~hist[k].wrote
        /\ k + 1 \in DOMAIN hist
        /\ hist[k + 1].path # hist[k].path
        /\ log # <<>>

Failed(h) == h.procs[1].returncode # 0

\* C4 (as amended): SubprocessFailure. When the external client exits non-zero
\* during the create or update call for one input file, that file is not written
\* and the whole run ends there: no later file of the input list is read or
\* handled.
C4_FailureEndsRun ==
    \A k \in DOMAIN hist :
        Failed(hist[k]) =>
            /\ k = Len(hist)
            /\ status = "crashed"
            /\ i = k
            /\ hist[k].path = notebooks[i]
            /\ ~hist[k].wrote
            /\ disk[hist[k].path] = hist[k].read

\* the client failed on the first of two files
C4_Witness ==
    /\ status = "crashed"
    /\ i = 1
    /\ Len(notebooks) = 2
    /\ notebooks[1] # notebooks[2]
    /\ Failed(hist[1])

\* C4 (as stated): after the external client exits non-zero for one file,
\* processing continues with the next file of the input list.
C4_AsStated ==
    \A k \in DOMAIN hist :
        Failed(hist[k]) => (status \in {"running", "done"} /\ i > k)

\* C5: with then-clear, in every document written every code cell has no
\* outputs, a null execution counter and neither a collapsed nor a scrolled
\* metadata key, the other metadata keys of code cells keep their values, and
\* every cell of another kind that was read is written back identical.
C5_ThenClear ==
    \A k \in DOMAIN hist :
        LET h == hist[k]
            r == h.read.cells
            w == h.written.cells
            off == Len(w) - Len(r)
        IN (h.wrote /\ h.clear) =>
              /\ LastWrite(k) => disk[h.path] = h.written
              /\ \A j \in DOMAIN w :
                    CellTypeIs(w[j], "code") =>
                        /\ w[j].outputs = <<>>
                        /\ w[j].execution_count = Null
                        /\ "metadata" \in DOMAIN w[j] =>
                              DOMAIN w[j].metadata \cap {"collapsed", "scrolled"} = {}
              /\ \A j \in DOMAIN r :
                    IF CellTypeIs(r[j], "code")
                    THEN "metadata" \in DOMAIN r[j] =>
                            /\ "metadata" \in DOMAIN w[j + off]
                            /\ \A key \in DOMAIN r[j].metadata \ {"collapsed", "scrolled"} :
                                  /\ key \in DOMAIN w[j + off].metadata
                                  /\ w[j + off].metadata[key] = r[j].metadata[key]
                    ELSE w[j + off] = r[j]

\* a notebook with a dirty code cell and a markdown cell that carries a
\* collapsed key was written with then-clear
C5_Witness ==
    \E k \in DOMAIN hist :
        /\ hist[k].wrote
        /\ hist[k].clear
        /\ codeDirty \in Range(hist[k].read.cells)
        /\ mdRef \in Range(hist[k].read.cells)

\* C6: the reader returns absent for a notebook of zero cells and for one whose
\* first cell is not markdown, whatever URLs that cell or later cells hold;
\* otherwise it returns what the extractor returns for the source of the first
\* cell, and the cells after the first have no influence.
C6_Reader ==
    \A k \in DOMAIN hist :
        LET r == hist[k].read.cells
        IN /\ Len(r) = 0 => hist[k].reader = None
           /\ (Len(r) > 0 /\ r[1].cell_type # "markdown") => hist[k].reader = None
           /\ (Len(r) > 0 /\ r[1].cell_type = "markdown") =>
                 /\ hist[k].reader = find_gist_id(r[1].source)
                 /\ hist[k].reader =
                       gist_url_from_notebook([hist[k].read EXCEPT !.cells = <<r[1]>>])

\* the reader found nothing in a notebook whose first cell is a code cell with
\* a gist URL and whose second cell is a markdown cell with a gist URL
C6_Witness ==
    \E k \in DOMAIN hist :
        /\ Len(hist[k].read.cells) >= 2
        /\ hist[k].read.cells[1] = codeDirty
        /\ hist[k].read.cells[2] = mdRef
        /\ hist[k].reader = None

\* C8: ClientNotFound. When gh is not on the search path the run ends with a
\* usage error before any file is processed: nothing is read, no client call is
\* made and no file is written, whatever the input paths.
C8_ClientNotFound ==
    [][ ~which_gh.present =>
          (/\ status' = "usage_error"
           /\ hist' = <<>>
           /\ disk' = disk
           /\ parsed' = NoDoc
           /\ log' = <<>>) ]_vars

\* the run ended with a usage error with two files to process
C8_Witness ==
    /\ status = "usage_error"
    /\ ~which_gh.present
    /\ Len(notebooks) = 2
    /\ hist = <<>>

----------------------------------------------------------------------------
(* Properties of repeated runs *)

\* C10: once a file went through the create branch and was written, every
\* later run on it finds the identifier that was announced in its first cell and
\* takes the update branch: create is not called again for it and the document
\* has exactly the one announcement cell more.
C10_RerunStable ==
    \A k \in DOMAIN hist :
        (IsCreate(hist[k]) /\ hist[k].wrote) =>
            LET id == find_gist_id(hist[k].procs[1].stdout)
            IN /\ gist_url_from_notebook(disk[hist[k].path]) = id
               /\ Len(disk[hist[k].path].cells) = Len(hist[k].read.cells) + 1
               /\ \A m \in DOMAIN hist :
                     (m > k /\ hist[m].path = hist[k].path) =>
                         /\ IsEdit(hist[m])
                         /\ hist[m].reader = id
                         /\ hist[m].calls[1][4] = "https://gist.github.com/" \o id.value
                         /\ Len(hist[m].read.cells) = Len(hist[k].read.cells) + 1

\* a file created and cleared in the first run was updated in the second
C10_Witness ==
    \E k, m \in DOMAIN hist :
        /\ IsCreate(hist[k])
        /\ hist[k].wrote
        /\ hist[k].clear
        /\ hist[k].run = 1
        /\ hist[m].run = 2
        /\ IsEdit(hist[m])
        /\ hist[m].wrote
        /\ run = 2

====
